---- MODULE Spec2Model ----
(***************************************************************************)
(* Payment state machine, idempotent initiation and webhook reconciliation *)
(* of the B2B payment backend (PaymentService, routes/payments,            *)
(* routes/webhooks), over the relational store it keeps its rows in.       *)
(*                                                                         *)
(* Every await of the TypeScript code is a scheduling point: a handler is  *)
(* a small process whose position (pc) is part of the state, and one       *)
(* action is one store call together with the synchronous code around it.  *)
(* A read is folded into the write that follows it only where the rows     *)
(* read cannot change in between (ids, types, amounts, external ids).      *)
(*                                                                         *)
(* Amounts are integers in cents; rates are in hundredths.                 *)
(***************************************************************************)
EXTENDS Integers, Sequences, FiniteSets, TLC

\* ------------------------------------------------------------------ bounds
\* Number of distinct Idempotency-Key headers the clients use.
MaxKeys == 1
\* Number of distinct webhook event ids (Id of the body) the provider uses.
MaxEvents == 1

\* ------------------------------------------------------------ input domains
\* The POST /payments requests of a run (they may overlap in time).
Callers == {1, 2}
NoKey == <<"none", 0>>
\* Idempotency-Key headers a client supplies (UUID-shaped).
ProvidedKeys == {<<"uuid", k>> : k \in 1..MaxKeys}
\* uuidv4() of the c-th request: a fresh value.
generateIdempotencyKey(c) == <<"uuid-gen", c>>
\* Vendor rows of the store: v_ok has a bank account, v_nobank has none;
\* v_none is an id with no row.
VendorRows == {"v_ok", "v_nobank"}
VendorIds == VendorRows \cup {"v_none"}
VendorStatuses == {"ACTIVE", "INACTIVE"}
hasBankAccount == [v \in VendorRows |-> v = "v_ok"]
AmountsSgd == {100000}
\* Vendor ids of the PATCH /vendors/:id/status requests.
StatusTargets == {"v_ok", "v_none"}

NoId == <<"none", 0>>
NoPayment == 0

VARIABLES
    vendorStatus,   \* Vendor.status of every vendor row
    calls,          \* POST /payments requests: position, arguments, response
    payments,       \* Payment rows, in creation order (id = index)
    flows,          \* detached processPaymentFlow of each Payment
    txs,            \* Transaction rows of each Payment, in creation order
                    \* (the id of a row is <<payment id, index>>)
    secret,         \* circleConfig.webhookSecret (WEBHOOK_SECRET of the env)
    events,         \* WebhookEvent rows, by circleEventId
    hooks,          \* POST /webhooks/circle requests: position, body, response
    reads,          \* GET /payments/:paymentId requests and their responses
    quotes          \* the last rate lookup: its currency pair and its result

payVars == <<vendorStatus, calls, payments, flows, txs>>
hookVars == <<secret, events, hooks>>
vars == <<vendorStatus, calls, payments, flows, txs, secret, events, hooks, reads, quotes>>

\* ------------------------------------------------------------ store helpers
PaymentIds == DOMAIN payments

\* The lookup finds nothing (what it does if the check is left out).
FindPaymentByKeyMissing(key) == NoPayment

\* prisma.payment.findUnique({ where: { idempotencyKey } })
FindPaymentByKey(key) ==
    IF \E p \in PaymentIds : payments[p].idempotencyKey = key
    THEN CHOOSE p \in PaymentIds : payments[p].idempotencyKey = key
    ELSE NoPayment

\* A store without the constraint refuses nothing.
KeyConflictIgnored(key) == FALSE

\* The store's unique constraint on Payment.idempotencyKey: an insert of a
\* key that a row already carries is refused.
KeyConflict(key) == \E p \in PaymentIds : payments[p].idempotencyKey = key

\* A pair that is not in the table has no rate.
getExchangeRateListedOnly(from, to) ==
    CASE from = "SGD" /\ to = "USDC" -> 74
      [] from = "USDC" /\ to = "USD" -> 100
      [] from = "SGD" /\ to = "USD" -> 74
      [] OTHER -> 0

\* mockRates[`${from}-${to}`] || 1.0, in hundredths
getExchangeRate(from, to) ==
    CASE from = "SGD" /\ to = "USDC" -> 74
      [] from = "USDC" /\ to = "USD" -> 100
      [] from = "SGD" /\ to = "USD" -> 74
      [] OTHER -> 100

\* Currency codes a rate is asked for: those of the table and another.
Currencies == {"SGD", "USDC", "USD", "EUR"}
NoQuote == [from |-> "none", to |-> "none", rate |-> 0]

\* A call of getExchangeRate on its own: the result is kept.
GetExchangeRate(from, to) ==
    /\ quotes' = [from |-> from, to |-> to, rate |-> getExchangeRate(from, to)]
    /\ UNCHANGED <<vendorStatus, calls, payments, flows, txs>>
    /\ UNCHANGED <<secret, events, hooks, reads>>

\* prisma.payment.update({ where: { id }, data: { status } })
updatePaymentStatus(p, status) == [payments EXCEPT ![p].status = status]

\* The body of a 201, where it is kept.
NoResponse == [status |-> "none", amountSgd |-> 0, estimatedAmountUsd |-> 0]

\* What a POST /payments request carried, as received.
NoRequest == [header |-> NoKey, vendorId |-> "", amount |-> [kind |-> "none", cents |-> 0]]

IdleCall ==
    [pc |-> "idle", key |-> NoKey, vendorId |-> "v_none", amountSgd |-> 0,
     http |-> 0, paymentId |-> NoPayment, error |-> "none", request |-> NoRequest,
     response |-> NoResponse]

NoFlow == [pc |-> "none", starts |-> 0, unhandled |-> FALSE, usd |-> 0]

\* ------------------------------------------------------ webhook requests
\* The POST /webhooks/circle requests of a run (they may overlap in time).
HookSlots == {1, 2}
EventIds == 1..MaxEvents
NoSecret == ""
HandledTypes == {"payment_intent.succeeded", "payment_intent.failed",
                 "transfer.completed", "transfer.failed",
                 "payout.completed", "payout.failed"}
EventTypes == HandledTypes \cup {"settlement.created"}
\* eventData.id of the bodies: the external ids the flow hands out, and one
\* that belongs to nothing.
DataIds == {<<"pi", 1>>, <<"payout", 1>>, <<"unknown", 0>>}
WebhookHash == "0x-webhook"
NoTx == <<0, 0>>
\* A DateTime column that is null, and the value of new Date().
NoDate == "null"
NewDate == "now"

NoEvent ==
    [stored |-> FALSE, eventType |-> "none", payload |-> <<"none", NoId>>,
     processed |-> FALSE, processedAt |-> NoDate,
     relatedPaymentId |-> NoPayment, relatedTransactionId |-> NoTx]

IdleHook ==
    [pc |-> "idle", type |-> "none", eid |-> 0, did |-> NoId, signed |-> FALSE,
     payment |-> NoPayment, tx |-> NoTx, http |-> 0, status |-> "none"]

\* The GET /payments/:paymentId requests of a run.
Readers == {1}
IdleRead ==
    [pc |-> "idle", http |-> 0, error |-> "none", paymentId |-> NoPayment,
     status |-> "none", transactions |-> << >>]

\* The store is empty but for the vendors; WEBHOOK_SECRET is set.
InitStore ==
    /\ vendorStatus = [v \in VendorRows |-> "ACTIVE"]
    /\ calls = [c \in Callers |-> IdleCall]
    /\ payments = << >>
    /\ flows = << >>
    /\ txs = << >>
    /\ events = [e \in EventIds |-> NoEvent]
    /\ hooks = [h \in HookSlots |-> IdleHook]
    /\ reads = [r \in Readers |-> IdleRead]
    /\ quotes = NoQuote

Init == InitStore /\ secret = "whsec"

\* The same with WEBHOOK_SECRET unset.
\* A secret is configured after all.
InitSecretSet == InitStore /\ secret = "whsec"

InitNoSecret == InitStore /\ secret = NoSecret

\* ------------------------------------------------- POST /payments, initiate
\* router.post('/') up to the call of initiatePayment, and the first line of
\* initiatePayment: the key is the header's or a generated one.
Begin(c, header, vendorId, amountSgd) ==
    /\ calls[c].pc = "idle"
    /\ calls' = [calls EXCEPT ![c] =
          [IdleCall EXCEPT !.pc = "lookup",
             !.key = IF header # NoKey THEN header ELSE generateIdempotencyKey(c),
             !.vendorId = vendorId, !.amountSgd = amountSgd]]
    /\ UNCHANGED <<vendorStatus, payments, flows, txs>>
    /\ UNCHANGED hookVars
    /\ UNCHANGED <<reads, quotes>>

\* amountSgd of a request body: a JSON number (in cents here) or a string.
Number(cents) == [kind |-> "number", cents |-> cents]
String(cents) == [kind |-> "string", cents |-> cents]
\* Max 1M SGD, in cents
MaxAmountCents == 100000000
AmountInputs ==
    {Number(0), Number(0 - 1), Number(1), Number(MaxAmountCents),
     Number(MaxAmountCents + 1), String(100000)}
\* Idempotency-Key headers: absent, empty, a version-4 UUID, a UUID of
\* another version, other text.
HeaderInputs ==
    {NoKey, <<"empty", 0>>, <<"uuid", 1>>, <<"uuid-v1", 1>>, <<"text", 1>>}

\* The ceiling is not applied.
validateAmountNoCeiling(amount) ==
    amount.cents > 0 /\ amount.kind = "number"

\* amount > 0 && Number.isFinite(amount) && amount <= 1000000; a string
\* is not finite for Number.isFinite.
validateAmount(amount) ==
    amount.cents > 0 /\ amount.kind = "number" /\ amount.cents <= MaxAmountCents

\* The version-4 UUID pattern, case-insensitive
validateIdempotencyKey(key) == key[1] = "uuid"

\* JavaScript truthiness of the header and of the amount
HeaderGiven(header) == header[1] \notin {"none", "empty"}
AmountGiven(amount) == ~(amount.kind = "number" /\ amount.cents = 0)

\* The validation of router.post('/'): the message of the 400, or "none".
ValidationError(header, vendorId, amount) ==
    IF vendorId = "" THEN "vendorId is required"
    ELSE IF ~AmountGiven(amount) \/ ~validateAmount(amount)
      THEN "Valid amountSgd is required (must be > 0 and <= 1,000,000)"
    ELSE IF HeaderGiven(header) /\ ~validateIdempotencyKey(header)
      THEN "Invalid idempotency key format (must be UUID)"
    ELSE "none"

\* router.post('/') with its validation, up to the first store call of
\* initiatePayment: a request that fails the validation is answered 400.
Post(c, header, vendorId, amount) ==
    /\ calls[c].pc = "idle"
    /\ LET msg == ValidationError(header, vendorId, amount)
           request == [header |-> header, vendorId |-> vendorId, amount |-> amount]
       IN calls' = [calls EXCEPT ![c] =
            IF msg # "none"
            THEN [IdleCall EXCEPT !.pc = "done", !.http = 400, !.error = msg,
                                  !.request = request]
            ELSE [IdleCall EXCEPT !.pc = "lookup",
                    !.key = IF HeaderGiven(header) THEN header
                            ELSE generateIdempotencyKey(c),
                    !.vendorId = vendorId, !.amountSgd = amount.cents,
                    !.request = request]]
    /\ UNCHANGED <<vendorStatus, payments, flows, txs>>
    /\ UNCHANGED hookVars
    /\ UNCHANGED <<reads, quotes>>

\* The response of initiatePayment for an existing row.
Respond(c, p) ==
    [calls EXCEPT ![c].pc = "done", ![c].http = 201, ![c].paymentId = p]

\* The catch of initiatePayment and of the router: 400 with the message.
Reject(c, msg) ==
    [calls EXCEPT ![c].pc = "done", ![c].http = 400, ![c].error = msg]

\* findUnique by key; an existing Payment is returned as it is.
Lookup(c) ==
    /\ calls[c].pc = "lookup"
    /\ LET p == FindPaymentByKey(calls[c].key) IN
         calls' = IF p # NoPayment THEN Respond(c, p)
                  ELSE [calls EXCEPT ![c].pc = "vendor"]
    /\ UNCHANGED <<vendorStatus, payments, flows, txs>>
    /\ UNCHANGED hookVars
    /\ UNCHANGED <<reads, quotes>>

\* The response carries the amount of the request.
ResponseEchoingRequest(c, p) ==
    [status |-> payments[p].status,
     amountSgd |-> calls[c].amountSgd,
     estimatedAmountUsd |-> payments[p].amountUsd]

\* The PaymentResponse built from existingPayment
ExistingPaymentResponse(c, p) ==
    [status |-> payments[p].status,
     amountSgd |-> payments[p].amountSgd,
     estimatedAmountUsd |-> payments[p].amountUsd]

\* findUnique by key, the body of the answer kept with the request.
LookupAnswering(c) ==
    /\ calls[c].pc = "lookup"
    /\ LET p == FindPaymentByKey(calls[c].key) IN
         calls' = IF p # NoPayment
                  THEN [Respond(c, p) EXCEPT ![c].response = ExistingPaymentResponse(c, p)]
                  ELSE [calls EXCEPT ![c].pc = "vendor"]
    /\ UNCHANGED <<vendorStatus, payments, flows, txs>>
    /\ UNCHANGED hookVars
    /\ UNCHANGED <<reads, quotes>>

\* The vendor is looked up by id alone.
VendorUsableAnyStatus(v) == v \in VendorRows

\* vendor.findFirst({ id, status: 'ACTIVE' }, include bankAccount)
VendorUsable(v) ==
    /\ v \in VendorRows
    /\ vendorStatus[v] = "ACTIVE"

ValidateVendor(c) ==
    /\ calls[c].pc = "vendor"
    /\ LET v == calls[c].vendorId IN
         calls' = IF ~VendorUsable(v)
                    THEN Reject(c, "Vendor not found or inactive")
                  ELSE IF ~hasBankAccount[v]
                    THEN Reject(c, "Vendor bank account not configured")
                  ELSE [calls EXCEPT ![c].pc = "create"]
    /\ UNCHANGED <<vendorStatus, payments, flows, txs>>
    /\ UNCHANGED hookVars
    /\ UNCHANGED <<reads, quotes>>

NewPayment(c) ==
    LET combinedRate == getExchangeRate("SGD", "USDC") * getExchangeRate("USDC", "USD")
    IN [idempotencyKey |-> calls[c].key,
        vendorId |-> calls[c].vendorId,
        amountSgd |-> calls[c].amountSgd,
        \* amountSgd * combinedRate, the rate being in 1/10000: whole
        \* multiples of 10000 first, so that no product leaves 32 bits
        amountUsd |-> (calls[c].amountSgd \div 10000) * combinedRate
                      + ((calls[c].amountSgd % 10000) * combinedRate) \div 10000,
        exchangeRate |-> combinedRate,
        status |-> "PENDING",
        circlePaymentId |-> NoId,
        settled |-> FALSE]

\* The flow is not started.
StartFlowNever(f) == f

\* this.processPaymentFlow(payment.id).catch(...): the flow is started.
StartFlow(f) == [f EXCEPT !.pc = "processing", !.starts = @ + 1]

\* prisma.payment.create, then the detached flow and the response; a key
\* that already has a row makes create throw, which the catch turns into
\* "Payment initiation failed".
Create(c) ==
    /\ calls[c].pc = "create"
    /\ IF KeyConflict(calls[c].key)
       THEN /\ calls' = Reject(c, "Unique constraint failed")
            /\ UNCHANGED <<payments, flows, txs>>
       ELSE /\ payments' = Append(payments, NewPayment(c))
            /\ flows' = Append(flows, StartFlow(NoFlow))
            /\ txs' = Append(txs, << >>)
            /\ calls' = Respond(c, Len(payments) + 1)
    /\ UNCHANGED vendorStatus
    /\ UNCHANGED hookVars
    /\ UNCHANGED <<reads, quotes>>

\* ------------------------------------------------ detached payment flow
\* Date.now() values the simulated provider ids are built from.
Times == {1}
SimHash == "0x-simulated"
NoHash == "none"

NewTx(p, type, status, amount, currency, extId, fees) ==
    [paymentId |-> p, type |-> type, status |-> status, amount |-> amount,
     currency |-> currency, circleTransactionId |-> extId,
     blockchainTxHash |-> NoHash, fees |-> fees]

TxIds == UNION {{<<p, i>> : i \in DOMAIN txs[p]} : p \in DOMAIN txs}

Tx(t) == txs[t[1]][t[2]]

\* The new row takes the place of the Payment's rows.
CreateTxReplacing(tx) == [txs EXCEPT ![tx.paymentId] = <<tx>>]

\* prisma.transaction.create
CreateTx(tx) == [txs EXCEPT ![tx.paymentId] = Append(@, tx)]

\* payment.transactions filtered by type
TxOfType(p, type) == {i \in DOMAIN txs[p] : txs[p][i].type = type}

FlowAt(p, pc) == p \in PaymentIds /\ flows[p].pc = pc

Goto(p, pc) == [flows EXCEPT ![p].pc = pc]

\* await this.updatePaymentStatus(paymentId, PaymentStatus.PROCESSING)
SetProcessing(p) ==
    /\ FlowAt(p, "processing")
    /\ payments' = updatePaymentStatus(p, "PROCESSING")
    /\ flows' = Goto(p, "intent_store")
    /\ UNCHANGED <<vendorStatus, calls, txs>>
    /\ UNCHANGED hookVars
    /\ UNCHANGED <<reads, quotes>>

\* `pi_${Date.now()}_${random}`: one id per payment intent
PaymentIntentId(p) == <<"pi", p>>

\* createCirclePaymentIntent: the Payment is read and the intent id stored
StoreCirclePaymentId(p) ==
    /\ FlowAt(p, "intent_store")
    /\ payments' = [payments EXCEPT ![p].circlePaymentId = PaymentIntentId(p)]
    /\ flows' = Goto(p, "intent_tx")
    /\ UNCHANGED <<vendorStatus, calls, txs>>
    /\ UNCHANGED hookVars
    /\ UNCHANGED <<reads, quotes>>

\* createCirclePaymentIntent: the PAYMENT_IN Transaction, PENDING
CreatePaymentIn(p) ==
    /\ FlowAt(p, "intent_tx")
    /\ txs' = CreateTx(NewTx(p, "PAYMENT_IN", "PENDING", payments[p].amountSgd,
                              "SGD", PaymentIntentId(p), 0))
    /\ flows' = Goto(p, "confirm")
    /\ UNCHANGED <<vendorStatus, calls, payments>>
    /\ UNCHANGED hookVars
    /\ UNCHANGED <<reads, quotes>>

\* The confirmation leaves the rows as they are.
SimulatePaymentConfirmationSkipped(p) ==
    /\ FlowAt(p, "confirm")
    /\ flows' = Goto(p, "ex1")
    /\ UNCHANGED <<vendorStatus, calls, payments, txs>>
    /\ UNCHANGED hookVars
    /\ UNCHANGED <<reads, quotes>>

\* simulatePaymentConfirmation: after the delay, updateMany on the
\* PAYMENT_IN rows of the Payment with the intent's id
SimulatePaymentConfirmation(p) ==
    /\ FlowAt(p, "confirm")
    /\ txs' = [txs EXCEPT ![p] = [i \in DOMAIN @ |->
                 IF /\ @[i].type = "PAYMENT_IN"
                    /\ @[i].circleTransactionId = PaymentIntentId(p)
                 THEN [@[i] EXCEPT !.status = "CONFIRMED",
                                   !.blockchainTxHash = SimHash]
                 ELSE @[i]]]
    /\ flows' = Goto(p, "ex1")
    /\ UNCHANGED <<vendorStatus, calls, payments>>
    /\ UNCHANGED hookVars
    /\ UNCHANGED <<reads, quotes>>

\* exchangeSgdToUsdc
ExchangeSgdToUsdc(p, now) ==
    /\ FlowAt(p, "ex1")
    /\ LET usdcAmount == (payments[p].amountSgd * getExchangeRate("SGD", "USDC")) \div 100
       IN txs' = CreateTx(NewTx(p, "EXCHANGE_SGD_TO_USDC", "CONFIRMED", usdcAmount,
                                "USDC", <<"exchange-sgd-usdc", now>>,
                                usdcAmount \div 1000))
    /\ flows' = Goto(p, "ex2_tx")
    /\ UNCHANGED <<vendorStatus, calls, payments>>
    /\ UNCHANGED hookVars
    /\ UNCHANGED <<reads, quotes>>

\* payment.transactions[0] of the given type: the rows come back in no
\* stated order, so any of them may be the first
FirstOfType(p, type) == TxOfType(p, type)

\* usdcTransaction.amount * rate
UsdAmount(p, i) == (txs[p][i].amount * getExchangeRate("USDC", "USD")) \div 100

\* exchangeUsdcToUsd: the EXCHANGE_USDC_TO_USD Transaction
ExchangeUsdcToUsd(p, now) ==
    /\ FlowAt(p, "ex2_tx")
    /\ \E i \in FirstOfType(p, "EXCHANGE_SGD_TO_USDC") :
         /\ txs' = CreateTx(NewTx(p, "EXCHANGE_USDC_TO_USD", "CONFIRMED", UsdAmount(p, i),
                                  "USD", <<"exchange-usdc-usd", now>>,
                                  UsdAmount(p, i) \div 1000))
         /\ flows' = [flows EXCEPT ![p].pc = "ex2_amount", ![p].usd = UsdAmount(p, i)]
    /\ UNCHANGED <<vendorStatus, calls, payments>>
    /\ UNCHANGED hookVars
    /\ UNCHANGED <<reads, quotes>>

\* exchangeUsdcToUsd: the final USD amount is written to the Payment
UpdateAmountUsd(p) ==
    /\ FlowAt(p, "ex2_amount")
    /\ payments' = [payments EXCEPT ![p].amountUsd = flows[p].usd]
    /\ flows' = Goto(p, "payout_tx")
    /\ UNCHANGED <<vendorStatus, calls, txs>>
    /\ UNCHANGED hookVars
    /\ UNCHANGED <<reads, quotes>>

\* payoutToVendor: the PAYOUT Transaction
PayoutToVendor(p, now) ==
    /\ FlowAt(p, "payout_tx")
    /\ hasBankAccount[payments[p].vendorId]
    /\ \E i \in FirstOfType(p, "EXCHANGE_USDC_TO_USD") :
         txs' = CreateTx(NewTx(p, "PAYOUT", "CONFIRMED", txs[p][i].amount, "USD",
                               <<"payout", now>>, (txs[p][i].amount * 2) \div 1000))
    /\ flows' = Goto(p, "payout_settle")
    /\ UNCHANGED <<vendorStatus, calls, payments>>
    /\ UNCHANGED hookVars
    /\ UNCHANGED <<reads, quotes>>

\* The settlement time is not written.
UpdateSettlementTimeSkipped(p) ==
    /\ FlowAt(p, "payout_settle")
    /\ flows' = Goto(p, "completed")
    /\ UNCHANGED <<vendorStatus, calls, payments, txs>>
    /\ UNCHANGED hookVars
    /\ UNCHANGED <<reads, quotes>>

\* payoutToVendor: actualSettlementTime
UpdateSettlementTime(p) ==
    /\ FlowAt(p, "payout_settle")
    /\ payments' = [payments EXCEPT ![p].settled = TRUE]
    /\ flows' = Goto(p, "completed")
    /\ UNCHANGED <<vendorStatus, calls, txs>>
    /\ UNCHANGED hookVars
    /\ UNCHANGED <<reads, quotes>>

\* await this.updatePaymentStatus(paymentId, PaymentStatus.COMPLETED)
SetCompleted(p) ==
    /\ FlowAt(p, "completed")
    /\ payments' = updatePaymentStatus(p, "COMPLETED")
    /\ flows' = Goto(p, "done")
    /\ UNCHANGED <<vendorStatus, calls, txs>>
    /\ UNCHANGED hookVars
    /\ UNCHANGED <<reads, quotes>>

\* The positions inside the try block of processPaymentFlow: each is a
\* store call, and a store call may throw.
TrySteps == {"processing", "intent_store", "intent_tx", "confirm", "ex1", "ex2_tx",
             "ex2_amount", "payout_tx", "payout_settle", "completed"}

\* A step of the try block throws: control passes to the catch.
StepThrows(p) ==
    /\ p \in PaymentIds
    /\ flows[p].pc \in TrySteps
    /\ flows' = Goto(p, "catch")
    /\ UNCHANGED <<vendorStatus, calls, payments, txs>>
    /\ UNCHANGED hookVars
    /\ UNCHANGED <<reads, quotes>>

\* catch of processPaymentFlow: await updatePaymentStatus(FAILED); throw error.
\* With ok the update is applied; without, the update itself throws. Either
\* way the promise rejects and the .catch of initiatePayment runs next.
CatchFlowError(p, ok) ==
    /\ FlowAt(p, "catch")
    /\ payments' = IF ok THEN updatePaymentStatus(p, "FAILED") ELSE payments
    /\ flows' = Goto(p, "detached")
    /\ UNCHANGED <<vendorStatus, calls, txs>>
    /\ UNCHANGED hookVars
    /\ UNCHANGED <<reads, quotes>>

\* The .catch only logs.
DetachedCatchLogsOnly(p, ok) ==
    /\ FlowAt(p, "detached")
    /\ flows' = [flows EXCEPT ![p].pc = "caught", ![p].unhandled = ~ok]
    /\ UNCHANGED <<vendorStatus, calls, payments, txs>>
    /\ UNCHANGED hookVars
    /\ UNCHANGED <<reads, quotes>>

\* .catch of initiatePayment: this.updatePaymentStatus(FAILED), not awaited
\* and with no handler of its own: a rejection of it is unhandled.
DetachedCatch(p, ok) ==
    /\ FlowAt(p, "detached")
    /\ payments' = IF ok THEN updatePaymentStatus(p, "FAILED") ELSE payments
    /\ flows' = [flows EXCEPT ![p].pc = "caught", ![p].unhandled = ~ok]
    /\ UNCHANGED <<vendorStatus, calls, txs>>
    /\ UNCHANGED hookVars
    /\ UNCHANGED <<reads, quotes>>

\* PATCH /vendors/:id/status -> VendorService.updateVendorStatus
UpdateVendorStatus(v, status) ==
    /\ vendorStatus' = IF v \in VendorRows
                       THEN [vendorStatus EXCEPT ![v] = status]
                       ELSE vendorStatus
    /\ UNCHANGED <<calls, payments, flows, txs>>
    /\ UNCHANGED hookVars
    /\ UNCHANGED <<reads, quotes>>

\* ------------------------------------------- GET /payments/:paymentId
\* The rows come newest first.
TransactionViewsNewestFirst(p) ==
    [i \in DOMAIN txs[p] |->
        LET j == Len(txs[p]) + 1 - i IN
        [id |-> <<p, j>>, type |-> txs[p][j].type, status |-> txs[p][j].status,
         amount |-> txs[p][j].amount, currency |-> txs[p][j].currency,
         fees |-> txs[p][j].fees, blockchainTxHash |-> txs[p][j].blockchainTxHash]]

\* payment.transactions.map(...) of getPaymentStatus, the rows in ascending
\* order of creation: what the response shows of each.
TransactionViews(p) ==
    [i \in DOMAIN txs[p] |->
        [id |-> <<p, i>>, type |-> txs[p][i].type, status |-> txs[p][i].status,
         amount |-> txs[p][i].amount, currency |-> txs[p][i].currency,
         fees |-> txs[p][i].fees, blockchainTxHash |-> txs[p][i].blockchainTxHash]]

\* router.get('/:paymentId') -> getPaymentStatus: findUnique with the
\* Transactions; 404 'Payment not found' for an id with no row.
GetPaymentStatus(r, id) ==
    /\ reads[r].pc = "idle"
    /\ reads' = [reads EXCEPT ![r] =
          IF id \in PaymentIds
          THEN [IdleRead EXCEPT !.pc = "done", !.http = 200, !.paymentId = id,
                                !.status = payments[id].status,
                                !.transactions = TransactionViews(id)]
          ELSE [IdleRead EXCEPT !.pc = "done", !.http = 404, !.paymentId = id,
                                !.error = "Payment not found"]]
    /\ UNCHANGED payVars
    /\ UNCHANGED hookVars
    /\ UNCHANGED quotes

\* ------------------------------------------- POST /webhooks/circle
\* Length of a digest in bytes (32 for SHA-256; the comparison only needs
\* lengths to agree or differ).
DigestLen == 2

\* crypto.createHmac('sha256', secret).update(payload).digest(): the bytes
\* are determined by payload and key, and differ when either differs.
HmacSha256(payload, key) == [i \in 1..DigestLen |-> <<payload, key, i>>]

\* .digest('hex'): two lower-case hex digits per byte
ToHex(bytes) == [i \in DOMAIN bytes |-> [byte |-> bytes[i], digits |-> "lower"]]
ToUpperCase(hex) == [i \in DOMAIN hex |-> [hex[i] EXCEPT !.digits = "upper"]]
\* two characters that are not hex digits
NotHex(payload) == [byte |-> <<payload, NoSecret, 0>>, digits |-> "none"]

\* Buffer.from(text, 'hex'): decodes pairs of hex digits of either case and
\* stops at the first pair that is not hex.
RECURSIVE BufferFromHex(_)
BufferFromHex(hex) ==
    IF hex = << >> \/ Head(hex).digits = "none" THEN << >>
    ELSE <<Head(hex).byte>> \o BufferFromHex(Tail(hex))

\* crypto.timingSafeEqual: throws when the byte lengths differ
timingSafeEqual(a, b) ==
    IF Len(a) # Len(b) THEN "throws" ELSE IF a = b THEN "true" ELSE "false"

Header(hex) == [present |-> TRUE, hex |-> hex]
NoHeader == [present |-> FALSE, hex |-> << >>]

\* verifyWebhookSignature(payload, signature, secret); an absent header is
\* undefined, which Buffer.from rejects with a TypeError.
verifyWebhookSignature(payload, signature, key) ==
    IF key = NoSecret THEN "true"
    ELSE IF ~signature.present THEN "throws"
    ELSE timingSafeEqual(BufferFromHex(signature.hex),
                         BufferFromHex(ToHex(HmacSha256(payload, key))))

\* x-signature headers of a request with the given body: none, the digest,
\* a digest under another key in either case, a truncated digest, and a
\* truncated digest followed by other text. (Headers that are not the
\* digest's text but decode to its bytes, such as the digest in upper case,
\* are accepted like the digest and are not among the inputs.)
SignatureHeaders(payload) ==
    LET good == ToHex(HmacSha256(payload, "whsec"))
        forged == ToHex(HmacSha256(payload, "guess"))
    IN {NoHeader, Header(good), Header(forged), Header(ToUpperCase(forged)),
        Header(SubSeq(good, 1, DigestLen - 1)),
        Header(SubSeq(good, 1, DigestLen - 1) \o <<NotHex(payload)>>)}

Body(type, eid, did) == [type |-> type, eid |-> eid, did |-> did]

\* res.status(...).json(...): the request is over
Answer(h, http, status) ==
    [hooks EXCEPT ![h] = [IdleHook EXCEPT !.pc = "done", !.http = http,
                             !.status = status, !.signed = hooks[h].signed]]

\* Whether the x-signature header is the hex digest of the body under the
\* configured secret (kept with the request for the record; the code never
\* reads it).
IsDigest(signature, payload) ==
    signature = Header(ToHex(HmacSha256(payload, secret)))

HookAt(h, pc) == hooks[h].pc = pc
HookGoto(h, pc) == [hooks EXCEPT ![h].pc = pc]

\* router.post('/circle') up to the first await: the signature check
Receive(h, type, eid, did, signature) ==
    /\ HookAt(h, "idle")
    /\ LET verdict == verifyWebhookSignature(Body(type, eid, did), signature, secret)
           signed == IsDigest(signature, Body(type, eid, did))
           answered(http, status) ==
               [hooks EXCEPT ![h] = [IdleHook EXCEPT !.pc = "done", !.http = http,
                                        !.status = status, !.signed = signed]]
       IN hooks' = IF secret # NoSecret /\ verdict = "throws"
                     THEN answered(500, "Webhook processing failed")
                   ELSE IF secret # NoSecret /\ verdict = "false"
                     THEN answered(401, "Invalid signature")
                   ELSE [hooks EXCEPT ![h] = [IdleHook EXCEPT !.pc = "find_event",
                            !.type = type, !.eid = eid, !.did = did,
                            !.signed = signed]]
    /\ UNCHANGED <<secret, events, reads, quotes>>
    /\ UNCHANGED payVars

\* webhookEvent.findUnique({ circleEventId }): a processed event is answered
\* at once
\* The processed flag is not looked at.
AlreadyProcessedIgnored(e) == FALSE

\* Any stored row counts as processed.
AlreadyProcessedAnyRow(e) == events[e].stored

\* existingEvent && existingEvent.processed
AlreadyProcessed(e) == events[e].stored /\ events[e].processed

FindEvent(h) ==
    /\ HookAt(h, "find_event")
    /\ hooks' = IF AlreadyProcessed(hooks[h].eid)
                THEN Answer(h, 200, "already_processed")
                ELSE HookGoto(h, "upsert")
    /\ UNCHANGED <<secret, events, reads, quotes>>
    /\ UNCHANGED payVars

\* The update branch writes processed: false as the create branch does.
UpsertEventResetting(h) ==
    /\ HookAt(h, "upsert")
    /\ LET e == hooks[h].eid IN
         events' = [events EXCEPT ![e] =
            IF @.stored THEN [@ EXCEPT !.payload = <<hooks[h].type, hooks[h].did>>,
                                       !.processed = FALSE]
            ELSE [NoEvent EXCEPT !.stored = TRUE, !.eventType = hooks[h].type,
                                 !.payload = <<hooks[h].type, hooks[h].did>>]]
    /\ hooks' = HookGoto(h, "handle")
    /\ UNCHANGED <<secret, reads, quotes>>
    /\ UNCHANGED payVars

\* webhookEvent.upsert: a new row, or the body of the existing one replaced
UpsertEvent(h) ==
    /\ HookAt(h, "upsert")
    /\ LET e == hooks[h].eid IN
         events' = [events EXCEPT ![e] =
            IF @.stored THEN [@ EXCEPT !.payload = <<hooks[h].type, hooks[h].did>>]
            ELSE [NoEvent EXCEPT !.stored = TRUE, !.eventType = hooks[h].type,
                                 !.payload = <<hooks[h].type, hooks[h].did>>]]
    /\ hooks' = HookGoto(h, "handle")
    /\ UNCHANGED <<secret, reads, quotes>>
    /\ UNCHANGED payVars

\* The lookup takes any Payment, whatever its circlePaymentId.
PaymentsByAnyId(did) == PaymentIds

\* payment.findFirst({ where: { circlePaymentId } })
PaymentsByCircleId(did) == {p \in PaymentIds : payments[p].circlePaymentId = did}

\* transaction.findFirst({ where: { circleTransactionId } })
TxsByCircleId(did) == {t \in TxIds : Tx(t).circleTransactionId = did}

\* The update reaches every Transaction of the Payment.
UpdateManyTxOfPayment(p, did, status, hash) ==
    [txs EXCEPT ![p] = [i \in DOMAIN @ |->
        [@[i] EXCEPT !.status = status,
                     !.blockchainTxHash = IF hash = NoHash THEN @ ELSE hash]]]

\* transaction.updateMany({ where: { paymentId, circleTransactionId }, data })
UpdateManyTx(p, did, status, hash) ==
    [txs EXCEPT ![p] = [i \in DOMAIN @ |->
        IF @[i].circleTransactionId = did
        THEN [@[i] EXCEPT !.status = status,
                          !.blockchainTxHash = IF hash = NoHash THEN @ ELSE hash]
        ELSE @[i]]]

\* transaction.update({ where: { id }, data })
UpdateTx(t, status, hash) ==
    [txs EXCEPT ![t[1]][t[2]] =
        [@ EXCEPT !.status = status,
                  !.blockchainTxHash = IF hash = NoHash THEN @ ELSE hash]]

\* handlePaymentIntentSucceeded / handlePaymentIntentFailed up to their
\* second write: the Payment is found by circlePaymentId and its matching
\* Transactions are updated; no Payment, no effect.
HandlePaymentIntent(h) ==
    /\ HookAt(h, "handle")
    /\ hooks[h].type \in {"payment_intent.succeeded", "payment_intent.failed"}
    /\ IF PaymentsByCircleId(hooks[h].did) = {}
       THEN /\ hooks' = HookGoto(h, "mark")
            /\ UNCHANGED txs
       ELSE \E p \in PaymentsByCircleId(hooks[h].did) :
            IF hooks[h].type = "payment_intent.succeeded"
            THEN /\ txs' = UpdateManyTx(p, hooks[h].did, "CONFIRMED", WebhookHash)
                 /\ hooks' = [hooks EXCEPT ![h].pc = "link", ![h].payment = p]
            ELSE /\ txs' = UpdateManyTx(p, hooks[h].did, "FAILED", NoHash)
                 /\ hooks' = [hooks EXCEPT ![h].pc = "payment", ![h].payment = p]
    /\ UNCHANGED <<vendorStatus, calls, payments, flows, secret, events, reads, quotes>>

\* The handler writes the Payment whatever the Transaction's type is.
WritesPaymentAnyType(type, tx) ==
    type \in {"payout.completed", "payout.failed", "transfer.failed"}

\* Whether the handler of the event type goes on to write the Payment.
WritesPayment(type, tx) ==
    \/ type \in {"payout.completed", "payout.failed"}
    \/ type = "transfer.failed" /\ tx.type = "PAYOUT"

\* handleTransferCompleted, handleTransferFailed, handlePayoutCompleted,
\* handlePayoutFailed up to their second write: the Transaction is found by
\* circleTransactionId and its status is written.
HandleTransaction(h) ==
    /\ HookAt(h, "handle")
    /\ hooks[h].type \in {"transfer.completed", "transfer.failed",
                          "payout.completed", "payout.failed"}
    /\ IF TxsByCircleId(hooks[h].did) = {}
       THEN /\ hooks' = HookGoto(h, "mark")
            /\ UNCHANGED txs
       ELSE \E t \in TxsByCircleId(hooks[h].did) :
            /\ txs' = CASE hooks[h].type = "transfer.completed" ->
                             UpdateTx(t, "CONFIRMED", WebhookHash)
                        [] hooks[h].type = "payout.completed" ->
                             UpdateTx(t, "CONFIRMED", NoHash)
                        [] OTHER -> UpdateTx(t, "FAILED", NoHash)
            /\ hooks' = [hooks EXCEPT ![h].tx = t,
                            ![h].pc = IF WritesPayment(hooks[h].type, Tx(t))
                                      THEN "payment" ELSE "link"]
    /\ UNCHANGED <<vendorStatus, calls, payments, flows, secret, events, reads, quotes>>

\* An unknown type is answered at once and its event left unprocessed.
HandleUnknownTypeIgnored(h) ==
    /\ HookAt(h, "handle")
    /\ hooks[h].type \notin HandledTypes
    /\ hooks' = Answer(h, 200, "ignored")
    /\ UNCHANGED <<secret, events, reads, quotes>>
    /\ UNCHANGED payVars

\* default branch of processWebhookEvent: logged, nothing done
HandleUnknownType(h) ==
    /\ HookAt(h, "handle")
    /\ hooks[h].type \notin HandledTypes
    /\ hooks' = HookGoto(h, "mark")
    /\ UNCHANGED <<secret, events, reads, quotes>>
    /\ UNCHANGED payVars

\* The handler writes the first Payment of the table.
HookPaymentFirstRow(h) == 1

\* The Payment a handler writes: the one found, or the owner of the
\* Transaction found.
HookPayment(h) ==
    IF hooks[h].payment # NoPayment THEN hooks[h].payment ELSE hooks[h].tx[1]

\* payment.update of the *.failed handlers and of handlePayoutCompleted
HandlerUpdatePayment(h) ==
    /\ HookAt(h, "payment")
    /\ payments' =
         IF hooks[h].type = "payout.completed"
         THEN [payments EXCEPT ![HookPayment(h)].status = "COMPLETED",
                               ![HookPayment(h)].settled = TRUE]
         ELSE [payments EXCEPT ![HookPayment(h)].status = "FAILED"]
    /\ hooks' = HookGoto(h, "link")
    /\ UNCHANGED <<vendorStatus, calls, flows, txs, secret, events, reads, quotes>>

\* The handler goes on without writing the reference.
LinkEventSkipped(h) ==
    /\ HookAt(h, "link")
    /\ hooks' = HookGoto(h, "mark")
    /\ UNCHANGED <<secret, events, reads, quotes>>
    /\ UNCHANGED payVars

\* webhookEvent.update: relatedPaymentId or relatedTransactionId
LinkEvent(h) ==
    /\ HookAt(h, "link")
    /\ events' = [events EXCEPT ![hooks[h].eid] =
          IF hooks[h].payment # NoPayment
          THEN [@ EXCEPT !.relatedPaymentId = hooks[h].payment]
          ELSE [@ EXCEPT !.relatedTransactionId = hooks[h].tx]]
    /\ hooks' = HookGoto(h, "mark")
    /\ UNCHANGED <<secret, reads, quotes>>
    /\ UNCHANGED payVars

\* webhookEvent.update({ processed: true, processedAt }) and the 200
MarkProcessed(h) ==
    /\ HookAt(h, "mark")
    /\ events' = [events EXCEPT ![hooks[h].eid].processed = TRUE,
                               ![hooks[h].eid].processedAt = NewDate]
    /\ hooks' = Answer(h, 200, "processed")
    /\ UNCHANGED <<secret, reads, quotes>>
    /\ UNCHANGED payVars

\* The positions of a webhook request that are store calls.
HookSteps == {"find_event", "upsert", "handle", "payment", "link", "mark"}

\* A store call of the request throws: the catch of the route answers 500.
HookThrows(h) ==
    /\ hooks[h].pc \in HookSteps
    /\ hooks' = Answer(h, 500, "Webhook processing failed")
    /\ UNCHANGED <<secret, events, reads, quotes>>
    /\ UNCHANGED payVars

\* ------------------------------------------------------- specifications
\* The detached flow of a Payment.
FlowSteps ==
    \/ \E p \in PaymentIds : SetProcessing(p)
    \/ \E p \in PaymentIds : StoreCirclePaymentId(p)
    \/ \E p \in PaymentIds : CreatePaymentIn(p)
    \/ \E p \in PaymentIds : SimulatePaymentConfirmation(p)
    \/ \E p \in PaymentIds, now \in Times : ExchangeSgdToUsdc(p, now)
    \/ \E p \in PaymentIds, now \in Times : ExchangeUsdcToUsd(p, now)
    \/ \E p \in PaymentIds : UpdateAmountUsd(p)
    \/ \E p \in PaymentIds, now \in Times : PayoutToVendor(p, now)
    \/ \E p \in PaymentIds : UpdateSettlementTime(p)
    \/ \E p \in PaymentIds : SetCompleted(p)

\* ... and its failures.
FlowThrows ==
    \/ \E p \in PaymentIds : StepThrows(p)
    \/ \E p \in PaymentIds, ok \in BOOLEAN : CatchFlowError(p, ok)
    \/ \E p \in PaymentIds, ok \in BOOLEAN : DetachedCatch(p, ok)

\* Payment requests with any key, vendor updates and the flows.
Next ==
    \/ \E c \in Callers, k \in ProvidedKeys \cup {NoKey}, v \in VendorIds,
          a \in AmountsSgd : Begin(c, k, v, a)
    \/ \E c \in Callers : Lookup(c)
    \/ \E c \in Callers : ValidateVendor(c)
    \/ \E c \in Callers : Create(c)
    \/ \E v \in StatusTargets, s \in VendorStatuses : UpdateVendorStatus(v, s)
    \/ FlowSteps
    \/ FlowThrows

Spec == Init /\ [][Next]_vars

\* One Payment (one payment request), its flow, and webhook requests
\* arriving at any moment of it, one request after the other.
NextWebhooks ==
    \/ \E a \in AmountsSgd : Begin(1, NoKey, "v_ok", a)
    \/ Lookup(1)
    \/ ValidateVendor(1)
    \/ Create(1)
    \/ FlowSteps
    \/ \E h \in HookSlots, type \in EventTypes, eid \in EventIds, did \in DataIds :
         \E signature \in SignatureHeaders(Body(type, eid, did)) :
           /\ \A g \in HookSlots \ {h} : hooks[g].pc \in {"idle", "done"}
           /\ Receive(h, type, eid, did, signature)
    \/ \E h \in HookSlots : FindEvent(h)
    \/ \E h \in HookSlots : UpsertEvent(h)
    \/ \E h \in HookSlots : HandlePaymentIntent(h)
    \/ \E h \in HookSlots : HandleTransaction(h)
    \/ \E h \in HookSlots : HandleUnknownType(h)
    \/ \E h \in HookSlots : HandlerUpdatePayment(h)
    \/ \E h \in HookSlots : LinkEvent(h)
    \/ \E h \in HookSlots : MarkProcessed(h)
    \/ \E h \in HookSlots : HookThrows(h)

SpecWebhooks == Init /\ [][NextWebhooks]_vars

\* The same with no webhook secret configured.
SpecNoSecret == InitNoSecret /\ [][NextWebhooks]_vars

\* Payment requests, vendor updates and the flows, with no store failure
\* and no webhook request.
NextNoFailure ==
    \/ \E c \in Callers, k \in ProvidedKeys \cup {NoKey}, v \in VendorIds,
          a \in AmountsSgd : Begin(c, k, v, a)
    \/ \E c \in Callers : Lookup(c)
    \/ \E c \in Callers : ValidateVendor(c)
    \/ \E c \in Callers : Create(c)
    \/ \E v \in StatusTargets, s \in VendorStatuses : UpdateVendorStatus(v, s)
    \/ FlowSteps

\* The ids the Payments of a run can have: one per request.
PaymentSlots == 1..Cardinality(Callers)

\* The next step of the flow of Payment p.
FlowStepOf(p) ==
    \/ SetProcessing(p)
    \/ StoreCirclePaymentId(p)
    \/ CreatePaymentIn(p)
    \/ SimulatePaymentConfirmation(p)
    \/ \E now \in Times : ExchangeSgdToUsdc(p, now)
    \/ \E now \in Times : ExchangeUsdcToUsd(p, now)
    \/ UpdateAmountUsd(p)
    \/ \E now \in Times : PayoutToVendor(p, now)
    \/ UpdateSettlementTime(p)
    \/ SetCompleted(p)

\* The event loop runs every continuation that is ready: the resolved store
\* calls and the timer of each flow.
SpecNoFailure ==
    Init /\ [][NextNoFailure]_vars /\ \A p \in PaymentSlots : WF_vars(FlowStepOf(p))

\* Payment requests and their flows, and rate lookups for any pair of
\* currency codes.
NextRates ==
    \/ \E c \in Callers, k \in ProvidedKeys \cup {NoKey}, a \in AmountsSgd :
          Begin(c, k, "v_ok", a)
    \/ \E c \in Callers : Lookup(c)
    \/ \E c \in Callers : ValidateVendor(c)
    \/ \E c \in Callers : Create(c)
    \/ FlowSteps
    \/ \E from, to \in Currencies : GetExchangeRate(from, to)

SpecRates == Init /\ [][NextRates]_vars

\* Payment requests with amounts at and around the limits and with every
\* kind of Idempotency-Key header.
NextValidation ==
    \/ \E c \in Callers, k \in HeaderInputs, v \in {"v_ok", ""}, a \in AmountInputs :
          Post(c, k, v, a)
    \/ \E c \in Callers : Lookup(c)
    \/ \E c \in Callers : ValidateVendor(c)
    \/ \E c \in Callers : Create(c)

SpecValidation == Init /\ [][NextValidation]_vars

\* Ids of the status reads: those of the Payment rows and one with no row.
ReadIds == PaymentIds \cup {Len(payments) + 1}

\* A signed webhook request on the first slot.
ReceiveSigned(h) ==
    \E type \in EventTypes, eid \in EventIds, did \in DataIds :
        Receive(h, type, eid, did, Header(ToHex(HmacSha256(Body(type, eid, did), secret))))

\* A signed delivery: of any event while no other request is under way, of
\* the event of a request under way otherwise (the provider sends the same
\* event again before the first delivery is answered).
Deliver(h) ==
    IF \E g \in HookSlots \ {h} : hooks[g].pc \notin {"idle", "done"}
    THEN \E g \in HookSlots \ {h} :
            /\ hooks[g].pc \notin {"idle", "done"}
            /\ Receive(h, hooks[g].type, hooks[g].eid, hooks[g].did,
                       Header(ToHex(HmacSha256(
                           Body(hooks[g].type, hooks[g].eid, hooks[g].did), secret))))
    ELSE ReceiveSigned(h)

\* One Payment, its flow, and signed deliveries that may overlap; no store
\* failure.
NextConcurrent ==
    \/ \E a \in AmountsSgd : Begin(1, NoKey, "v_ok", a)
    \/ Lookup(1)
    \/ ValidateVendor(1)
    \/ Create(1)
    \/ FlowSteps
    \/ \E h \in HookSlots : Deliver(h)
    \/ \E h \in HookSlots : FindEvent(h)
    \/ \E h \in HookSlots : UpsertEvent(h)
    \/ \E h \in HookSlots : HandlePaymentIntent(h)
    \/ \E h \in HookSlots : HandleTransaction(h)
    \/ \E h \in HookSlots : HandleUnknownType(h)
    \/ \E h \in HookSlots : HandlerUpdatePayment(h)
    \/ \E h \in HookSlots : LinkEvent(h)
    \/ \E h \in HookSlots : MarkProcessed(h)

SpecConcurrent == Init /\ [][NextConcurrent]_vars

\* Data.id of a webhook body: the ids above, or null.
DataIdInputs == DataIds \cup {NoId}

\* One Payment, its flow, and one signed webhook request whose Data.id may
\* be null; no store failure.
NextNullId ==
    \/ \E a \in AmountsSgd : Begin(1, NoKey, "v_ok", a)
    \/ Lookup(1)
    \/ ValidateVendor(1)
    \/ Create(1)
    \/ FlowSteps
    \/ \E type \in EventTypes, eid \in EventIds, did \in DataIdInputs :
          Receive(1, type, eid, did, Header(ToHex(HmacSha256(Body(type, eid, did), secret))))
    \/ FindEvent(1)
    \/ UpsertEvent(1)
    \/ HandlePaymentIntent(1)
    \/ HandleTransaction(1)
    \/ HandleUnknownType(1)
    \/ HandlerUpdatePayment(1)
    \/ LinkEvent(1)
    \/ MarkProcessed(1)

SpecNullId == Init /\ [][NextNullId]_vars

\* Data.id values that reach the rows of two Payments: the intent id of the
\* first, and the ids built from the clock alone, which the Transactions of
\* both carry.
SharedDataIds == {<<"pi", 1>>, <<"payout", 1>>, <<"exchange-sgd-usdc", 1>>}

\* Two Payments with generated keys, their flows, and one signed webhook
\* request; no store failure.
NextTwoPayments ==
    \/ \E c \in Callers, a \in AmountsSgd : Begin(c, NoKey, "v_ok", a)
    \/ \E c \in Callers : Lookup(c)
    \/ \E c \in Callers : ValidateVendor(c)
    \/ \E c \in Callers : Create(c)
    \/ FlowSteps
    \/ \E type \in HandledTypes, eid \in EventIds, did \in SharedDataIds :
          Receive(1, type, eid, did, Header(ToHex(HmacSha256(Body(type, eid, did), secret))))
    \/ FindEvent(1)
    \/ UpsertEvent(1)
    \/ HandlePaymentIntent(1)
    \/ HandleTransaction(1)
    \/ HandlerUpdatePayment(1)
    \/ LinkEvent(1)
    \/ MarkProcessed(1)

SpecTwoPayments == Init /\ [][NextTwoPayments]_vars

\* Amounts of the requests that share a key.
ReplayAmounts == {100000, 50000}

\* Requests with one key and differing bodies, vendor updates and the
\* flow; no store failure.
NextReplay ==
    \/ \E c \in Callers, v \in VendorIds, a \in ReplayAmounts :
          Begin(c, <<"uuid", 1>>, v, a)
    \/ \E c \in Callers : LookupAnswering(c)
    \/ \E c \in Callers : ValidateVendor(c)
    \/ \E c \in Callers : Create(c)
    \/ \E v \in StatusTargets, st \in VendorStatuses : UpdateVendorStatus(v, st)
    \/ FlowSteps

SpecReplay == Init /\ [][NextReplay]_vars

\* The failure path of the flow of Payment p. The update of the .catch may
\* only fail where the catch of the flow has recorded the outcome: one of
\* the two updates that write FAILED succeeds.
CatchStepOf(p) ==
    \/ \E ok \in BOOLEAN : CatchFlowError(p, ok)
    \/ \E ok \in BOOLEAN :
          /\ ok \/ (p \in PaymentIds /\ payments[p].status = "FAILED")
          /\ DetachedCatch(p, ok)

\* Payment requests with a generated or a supplied key, and their flows, in
\* which any store call may throw.
NextFair ==
    \/ \E c \in Callers, k \in {NoKey, <<"uuid", 1>>}, v \in VendorRows,
          a \in AmountsSgd : Begin(c, k, v, a)
    \/ \E c \in Callers : Lookup(c)
    \/ \E c \in Callers : ValidateVendor(c)
    \/ \E c \in Callers : Create(c)
    \/ FlowSteps
    \/ \E p \in PaymentIds : StepThrows(p)
    \/ \E p \in PaymentSlots : CatchStepOf(p)

\* The event loop runs every continuation that is ready, on the success
\* path and on the failure path of each flow.
SpecFair ==
    Init /\ [][NextFair]_vars
         /\ \A p \in PaymentSlots : WF_vars(FlowStepOf(p) \/ CatchStepOf(p))

\* Everything that could start a flow: payment requests with one key for
\* a vendor with or without bank account (replays, conflicts, rejected
\* requests), the flow and its failures, status reads, and a webhook request.
NextPipelines ==
    \/ \E c \in Callers, v \in VendorRows, a \in AmountsSgd :
          Begin(c, <<"uuid", 1>>, v, a)
    \/ \E c \in Callers : Lookup(c)
    \/ \E c \in Callers : ValidateVendor(c)
    \/ \E c \in Callers : Create(c)
    \/ FlowSteps
    \/ FlowThrows
    \/ \E r \in Readers, id \in ReadIds : GetPaymentStatus(r, id)
    \/ ReceiveSigned(1)
    \/ FindEvent(1)
    \/ UpsertEvent(1)
    \/ HandlePaymentIntent(1)
    \/ HandleTransaction(1)
    \/ HandleUnknownType(1)
    \/ HandlerUpdatePayment(1)
    \/ LinkEvent(1)
    \/ MarkProcessed(1)
    \/ HookThrows(1)

SpecPipelines == Init /\ [][NextPipelines]_vars

\* ------------------------------------------------------------------ claims
KeyHasPayment(key) == \E p \in PaymentIds : payments[p].idempotencyKey = key
PaymentOfKey(key) == CHOOSE p \in PaymentIds : payments[p].idempotencyKey = key
TypesOf(p) == [i \in DOMAIN txs[p] |-> txs[p][i].type]
FlowTypes == <<"PAYMENT_IN", "EXCHANGE_SGD_TO_USDC", "EXCHANGE_USDC_TO_USD", "PAYOUT">>
Terminal == {"COMPLETED", "FAILED"}

\* C1: in every reachable state no two Payment rows carry the same
\* idempotency key, whatever the number and interleaving of the requests and
\* whether their keys are supplied or generated.
C1_OnePaymentPerKey ==
    \A p, q \in PaymentIds :
        payments[p].idempotencyKey = payments[q].idempotencyKey => p = q

\* C1 witness: two requests with the same key both passed the lookup, one
\* created the row and the other ran into it.
C1_Witness ==
    \E c, d \in Callers :
        /\ c # d
        /\ calls[c].key = calls[d].key
        /\ calls[c].pc = "done" /\ calls[c].http = 201
        /\ calls[d].pc = "done" /\ calls[d].error = "Unique constraint failed"

\* The lookup step of a request whose key already has a Payment.
C2_ReplayStep ==
    \A c \in Callers :
        (/\ calls[c].pc = "lookup"
         /\ calls'[c] # calls[c]
         /\ KeyHasPayment(calls[c].key))
        => /\ calls'[c].pc = "done"
           /\ calls'[c].http = 201
           /\ calls'[c].paymentId = PaymentOfKey(calls[c].key)
           /\ payments' = payments
           /\ flows' = flows
           /\ txs' = txs

\* What the requests answered 201 were told.
C2_SameId ==
    \A c \in Callers :
        calls[c].http = 201 =>
            /\ calls[c].paymentId \in PaymentIds
            /\ payments[calls[c].paymentId].idempotencyKey = calls[c].key
            /\ flows[calls[c].paymentId].starts = 1

\* C2: a request whose key already has a Payment when it looks the key up
\* is answered 201 with that Payment's id and changes no Payment, no flow
\* (none is started) and no Transaction; and every request answered 201
\* names the Payment that carries its key, whose flow was started once.
C2_Replay == [][C2_ReplayStep]_vars /\ []C2_SameId

\* C2 witness: two requests were answered with the same Payment.
C2_Witness ==
    \E c, d \in Callers :
        /\ c # d
        /\ calls[c].http = 201 /\ calls[d].http = 201
        /\ calls[c].paymentId = calls[d].paymentId

\* C3 (as claimed): a request whose create runs into the unique constraint
\* is answered with the existing Payment of its key.
C3_ConflictFallsBack ==
    [][\A c \in Callers :
        (/\ calls[c].pc = "create"
         /\ calls'[c] # calls[c]
         /\ KeyConflict(calls[c].key))
        => /\ calls'[c].http = 201
           /\ calls'[c].paymentId = PaymentOfKey(calls[c].key)]_vars

\* C4 (as claimed): a Payment's status, once COMPLETED or FAILED, is never
\* written to a different value.
C4_TerminalIsFinal ==
    [][\A p \in PaymentIds :
        payments[p].status \in Terminal =>
            payments'[p].status = payments[p].status]_vars

\* C5 (as claimed): a COMPLETED Payment has exactly the Transactions
\* PAYMENT_IN, EXCHANGE_SGD_TO_USDC, EXCHANGE_USDC_TO_USD, PAYOUT, in this
\* order of creation.
C5_CompletedTypes ==
    \A p \in PaymentIds :
        payments[p].status = "COMPLETED" => TypesOf(p) = FlowTypes

StoreRows == <<payments, txs, events>>

\* C6: a request whose event id is already marked processed when it looks
\* the event up ends there: it is answered 'already_processed' (500 if the
\* lookup itself throws) and no Payment, Transaction or WebhookEvent row
\* changes, whatever type and data id it carries.
C6_RedeliveryIsNoOp ==
    [][\A h \in HookSlots :
        (/\ hooks[h].pc = "find_event"
         /\ hooks'[h] # hooks[h]
         /\ events[hooks[h].eid].stored
         /\ events[hooks[h].eid].processed)
        => /\ hooks'[h].pc = "done"
           /\ \/ hooks'[h].http = 200 /\ hooks'[h].status = "already_processed"
              \/ hooks'[h].http = 500
           /\ StoreRows' = StoreRows]_vars

\* C6 witness: a redelivery was answered 'already_processed'.
C6_Witness ==
    \E h \in HookSlots :
        /\ hooks[h].status = "already_processed"
        /\ \E e \in EventIds : events[e].processed

\* C7 (as claimed): once a step of the flow has thrown, the flow creates no
\* further Transaction and changes none, and when its error handling is over
\* the Payment is FAILED.
C7_FailureStops ==
    /\ [][\A p \in PaymentIds :
            flows[p].pc \in {"catch", "detached", "caught"} => txs'[p] = txs[p]]_vars
    /\ [](\A p \in PaymentIds :
            flows[p].pc = "caught" => payments[p].status = "FAILED")

\* C8 (as claimed): an error of the detached flow, that of the FAILED update
\* included, is handled (no unhandled rejection), leaves what the requests
\* were answered untouched and ends with the Payment FAILED.
C8_ErrorsCaught ==
    /\ [][\A p \in PaymentIds :
            flows[p].pc \in {"catch", "detached"} /\ flows'[p] # flows[p]
                => calls' = calls]_vars
    /\ [](\A p \in PaymentIds :
            /\ ~flows[p].unhandled
            /\ flows[p].pc = "caught" => payments[p].status = "FAILED")

VendorRejected(v) ==
    \/ v \notin VendorRows
    \/ vendorStatus[v] # "ACTIVE"
    \/ ~hasBankAccount[v]

\* The vendor check of a request whose vendor is not usable.
C9_VendorStep ==
    \A c \in Callers :
        (/\ calls[c].pc = "vendor"
         /\ calls'[c] # calls[c]
         /\ VendorRejected(calls[c].vendorId))
        => /\ calls'[c].pc = "done"
           /\ calls'[c].http = 400
           /\ calls'[c].paymentId = NoPayment
           /\ payments' = payments
           /\ flows' = flows
           /\ txs' = txs

\* C9: a request with a new key whose vendor has no row, is not ACTIVE or
\* has no bank account is answered with an error at the vendor check, names
\* no Payment, and creates no Payment and starts no flow.
C9_BadVendorRejected == [][C9_VendorStep]_vars

\* C9 witness: one request was rejected for an inactive vendor and one for a
\* vendor without bank account.
C9_Witness ==
    \E c, d \in Callers :
        /\ calls[c].error = "Vendor not found or inactive"
        /\ calls[c].vendorId = "v_ok"
        /\ calls[d].error = "Vendor bank account not configured"
        /\ payments = << >>

\* C10 (as claimed): with a secret configured, a request whose signature
\* header is not the digest of its body is answered 401 before any store
\* call.
C10_BadSignature401 ==
    \A h \in HookSlots :
        (secret # NoSecret /\ hooks[h].pc # "idle" /\ ~hooks[h].signed)
            => hooks[h].pc = "done" /\ hooks[h].http = 401

\* The positions of a webhook request inside its handler.
HandlerSteps == {"handle", "payment", "link"}

\* A store call of the handler throws.
C11_HandlerThrowStep ==
    \A h \in HookSlots :
        (hooks[h].pc \in HandlerSteps /\ hooks'[h].pc = "done")
        => /\ hooks'[h].http = 500
           /\ events'[hooks[h].eid].stored
           /\ ~events'[hooks[h].eid].processed

\* The lookup and the upsert of a delivery whose event row is stored and
\* not processed.
C11_RetryStep ==
    \A h \in HookSlots :
        (/\ hooks[h].pc \in {"find_event", "upsert"}
         /\ hooks'[h] # hooks[h]
         /\ events[hooks[h].eid].stored
         /\ ~events[hooks[h].eid].processed)
        => /\ hooks'[h].status # "already_processed"
           /\ \/ hooks'[h].http = 500
              \/ hooks[h].pc = "find_event" /\ hooks'[h].pc = "upsert"
              \/ hooks[h].pc = "upsert" /\ hooks'[h].pc = "handle"

C12_ProcessedStep ==
    \A h \in HookSlots :
        (hooks[h].pc # "done" /\ hooks'[h].status = "processed")
        => LET row == events'[hooks[h].eid] IN
           /\ hooks'[h].http = 200
           /\ row.stored
           /\ row.processed
           /\ row.processedAt # NoDate
           /\ hooks[h].payment # NoPayment => row.relatedPaymentId = hooks[h].payment
           /\ hooks[h].tx # NoTx => row.relatedTransactionId = hooks[h].tx

\* C12: when a webhook request is answered 'processed', the WebhookEvent
\* row of its event id has processed = true and a processedAt timestamp, and
\* if its handler found a Payment (or a Transaction) the row's
\* relatedPaymentId (or relatedTransactionId) is that row's id.
C12_ProcessedAndLinked == [][C12_ProcessedStep]_vars

\* C12 witness: a request whose handler found a Transaction was answered
\* 'processed' and the event row refers to the Transaction.
C12_Witness ==
    \E h \in HookSlots, e \in EventIds :
        /\ hooks[h].status = "processed"
        /\ events[e].processed
        /\ events[e].relatedTransactionId \in TxIds
        /\ events[e].eventType = "transfer.completed"

\* How often the flow of each Payment was started so far.
C13_StartedOnce == \A p \in PaymentIds : flows[p].starts = 1

\* A step that starts a flow is the create step of the request that
\* inserts the Payment and is answered with its id.
C13_StartStep ==
    \A p \in DOMAIN flows' :
        (p \notin DOMAIN flows \/ flows'[p].starts # flows[p].starts)
        => /\ p \notin PaymentIds
           /\ p \in DOMAIN payments'
           /\ flows'[p].starts = 1
           /\ \E c \in Callers :
                /\ calls[c].pc = "create"
                /\ calls'[c].http = 201
                /\ calls'[c].paymentId = p
                /\ payments'[p].idempotencyKey = calls[c].key

\* C13: the flow of every Payment has been started exactly once, and the
\* only step that starts a flow is the create step of the request that
\* inserted the Payment: no replay, rejected request, flow failure, status
\* read or webhook request starts one.
C13_OnePipelinePerPayment == [][C13_StartStep]_vars /\ []C13_StartedOnce

\* C13 witness: a Payment whose key was replayed, whose status was read and
\* for which a webhook was processed has finished its one flow.
C13_Witness ==
    \E c, d \in Callers, p \in PaymentIds :
        /\ c # d
        /\ calls[c].http = 201 /\ calls[c].paymentId = p
        /\ calls[d].http = 201 /\ calls[d].paymentId = p
        /\ reads[1].http = 200 /\ reads[1].paymentId = p
        /\ hooks[1].status = "processed"
        /\ events[1].relatedPaymentId = p
        /\ flows[p].pc = "done"
        /\ flows[p].starts = 1

\* The status changes of a Payment, and the status of a new one.
C14_StatusStep ==
    \A p \in DOMAIN payments' :
        IF p \in PaymentIds
        THEN \/ payments'[p].status = payments[p].status
             \/ payments[p].status = "PENDING" /\ payments'[p].status = "PROCESSING"
             \/ payments[p].status = "PROCESSING" /\ payments'[p].status = "COMPLETED"
        ELSE payments'[p].status = "PENDING"

\* What a COMPLETED Payment has.
C14_CompletedState ==
    \A p \in PaymentIds :
        payments[p].status = "COMPLETED" =>
            /\ TypesOf(p) = FlowTypes
            /\ \A i \in DOMAIN txs[p] : txs[p][i].status = "CONFIRMED"
            /\ payments[p].settled

\* Every Payment becomes COMPLETED.
C14_Completes ==
    \A p \in PaymentSlots :
        (p \in PaymentIds) ~> (p \in PaymentIds /\ payments[p].status = "COMPLETED")

\* C14: with no webhook request and no store failure, a Payment starts
\* PENDING, its status only changes PENDING -> PROCESSING -> COMPLETED, it
\* does become COMPLETED, and a COMPLETED Payment has exactly the
\* Transactions PAYMENT_IN, EXCHANGE_SGD_TO_USDC, EXCHANGE_USDC_TO_USD,
\* PAYOUT, all CONFIRMED, and its actualSettlementTime set.
C14_HappyPath == [][C14_StatusStep]_vars /\ []C14_CompletedState /\ C14_Completes

\* C14 witness: a flow has run to its end and its Payment is COMPLETED
\* with four Transactions.
C14_Witness ==
    \E p \in PaymentIds :
        /\ flows[p].pc = "done"
        /\ payments[p].status = "COMPLETED"
        /\ Len(txs[p]) = 4

\* The sum of the fees recorded on a sequence of Transactions.
RECURSIVE SumFees(_)
SumFees(rows) == IF rows = << >> THEN 0 ELSE Head(rows).fees + SumFees(Tail(rows))

\* amountSgd x rate(SGD->USDC) x rate(USDC->USD), in cents.
GrossUsd(p) ==
    (payments[p].amountSgd * getExchangeRate("SGD", "USDC")
        * getExchangeRate("USDC", "USD")) \div 10000

Abs(n) == IF n < 0 THEN 0 - n ELSE n

\* C15 (as claimed): the amountUsd of a COMPLETED Payment is amountSgd x
\* rate(SGD->USDC) x rate(USDC->USD) less the fees recorded on its
\* Transactions, to within a cent per step.
C15_Conservation ==
    \A p \in PaymentIds :
        payments[p].status = "COMPLETED" =>
            Abs(payments[p].amountUsd - (GrossUsd(p) - SumFees(txs[p]))) <= Len(txs[p])

\* The Transactions of Payment p with the external id did all have the
\* given status, in the state a step leads to.
MatchingTxsAfter(p, did, status) ==
    \A i \in DOMAIN txs'[p] :
        txs'[p][i].circleTransactionId = did => txs'[p][i].status = status

\* The step that answers 'processed' to a payment_intent.failed request
\* that found its Payment, or to a payout.failed request that found its
\* Transaction.
C16_FailedStep ==
    \A h \in HookSlots :
        (hooks[h].pc = "mark" /\ hooks'[h].status = "processed") =>
            /\ (hooks[h].type = "payment_intent.failed" /\ hooks[h].payment # NoPayment)
                => /\ MatchingTxsAfter(hooks[h].payment, hooks[h].did, "FAILED")
                   /\ payments'[hooks[h].payment].status = "FAILED"
            /\ (hooks[h].type = "payout.failed" /\ hooks[h].tx # NoTx)
                => /\ txs'[hooks[h].tx[1]][hooks[h].tx[2]].status = "FAILED"
                   /\ payments'[hooks[h].tx[1]].status = "FAILED"

\* C16 (as claimed): when a payment_intent.failed request whose id is a
\* Payment's circlePaymentId, or a payout.failed request whose id is a
\* Transaction's external id, is answered 'processed', the matching
\* Transaction is FAILED and the owning Payment is FAILED.
C16_FailedMarksBoth == [][C16_FailedStep]_vars

\* The steps of a transfer.failed request from the handler on: the first
\* marks the Transaction found FAILED and nothing else; the Payment is
\* written, to FAILED and in its status only, just when that Transaction is
\* a PAYOUT.
C17_TransferFailedStep ==
    \A h \in HookSlots :
        (/\ hooks[h].type = "transfer.failed"
         /\ hooks[h].pc \in HandlerSteps \cup {"mark"}
         /\ hooks'[h] # hooks[h]
         /\ hooks'[h].http # 500)
        => LET t == hooks'[h].tx IN
           /\ hooks[h].pc = "handle" /\ t # NoTx
                => /\ Tx(t).circleTransactionId = hooks[h].did
                   /\ txs' = [txs EXCEPT ![t[1]][t[2]].status = "FAILED"]
                   /\ payments' = payments
                   /\ hooks'[h].pc = "payment" <=> Tx(t).type = "PAYOUT"
           /\ hooks[h].pc = "handle" /\ t = NoTx
                => txs' = txs /\ payments' = payments
           /\ hooks[h].pc = "payment"
                => /\ Tx(hooks[h].tx).type = "PAYOUT"
                   /\ payments' = [payments EXCEPT ![hooks[h].tx[1]].status = "FAILED"]
                   /\ txs' = txs
           /\ hooks[h].pc \in {"link", "mark"}
                => txs' = txs /\ payments' = payments

\* C17: a transfer.failed request marks the Transaction with the matching
\* external id FAILED; it writes the owning Payment (status FAILED, nothing
\* else) if and only if that Transaction's type is PAYOUT, and for another
\* type no step of the request changes any Payment.
C17_TransferFailed == [][C17_TransferFailedStep]_vars

\* C17 witness: a transfer.failed request for the PAYOUT Transaction was
\* processed: that Transaction is FAILED and so is its Payment.
C17_Witness ==
    \E h \in HookSlots, e \in EventIds :
        /\ hooks[h].status = "processed"
        /\ events[e].processed
        /\ events[e].payload = <<"transfer.failed", <<"payout", 1>> >>
        /\ events[e].relatedTransactionId \in TxIds
        /\ Tx(events[e].relatedTransactionId).type = "PAYOUT"
        /\ Tx(events[e].relatedTransactionId).status = "FAILED"
        /\ payments[events[e].relatedTransactionId[1]].status = "FAILED"

\* The steps of a payout.completed request that found a Transaction.
C18_PayoutCompletedStep ==
    \A h \in HookSlots :
        (/\ hooks[h].type = "payout.completed"
         /\ hooks[h].pc \in {"handle", "payment"}
         /\ hooks'[h] # hooks[h]
         /\ hooks'[h].http # 500
         /\ hooks'[h].tx # NoTx)
        => LET t == hooks'[h].tx IN
           /\ Tx(t).type = "PAYOUT"
           /\ hooks[h].pc = "handle"
                => /\ txs' = [txs EXCEPT ![t[1]][t[2]].status = "CONFIRMED"]
                   /\ hooks'[h].pc = "payment"
           /\ hooks[h].pc = "payment"
                => payments' = [payments EXCEPT ![t[1]].status = "COMPLETED",
                                                ![t[1]].settled = TRUE]

\* C18 (as claimed): a payout.completed request marks the Transaction with
\* the matching external id CONFIRMED and sets the owning Payment COMPLETED
\* with actualSettlementTime, and only when that Transaction is the
\* Payment's PAYOUT.
C18_PayoutCompleted == [][C18_PayoutCompletedStep]_vars

\* A Transaction row after a step is the row before it, or the row with
\* status CONFIRMED and the event's hash if it carries the external id.
ConfirmedOrSame(t, did) ==
    \/ txs'[t[1]][t[2]] = Tx(t)
    \/ /\ Tx(t).circleTransactionId = did
       /\ txs'[t[1]][t[2]] = [Tx(t) EXCEPT !.status = "CONFIRMED",
                                           !.blockchainTxHash = WebhookHash]

\* The steps of a payment_intent.succeeded or transfer.completed request.
C19_SucceededStep ==
    \A h \in HookSlots :
        (/\ hooks[h].type \in {"payment_intent.succeeded", "transfer.completed"}
         /\ hooks[h].pc # "idle"
         /\ hooks'[h] # hooks[h])
        => /\ payments' = payments
           /\ flows' = flows
           /\ DOMAIN txs' = DOMAIN txs
           /\ \A q \in DOMAIN txs : DOMAIN txs'[q] = DOMAIN txs[q]
           /\ \A t \in TxIds : ConfirmedOrSame(t, hooks[h].did)
           /\ hooks[h].pc # "handle" => txs' = txs
           /\ \A e \in EventIds \ {hooks[h].eid} : events'[e] = events[e]

\* C19: no step of a payment_intent.succeeded or transfer.completed
\* request changes a Payment, creates a Transaction, or changes a
\* Transaction other than by setting status CONFIRMED and the hash on one
\* that carries the event's external id; of the WebhookEvent rows only the
\* request's own changes.
C19_SucceededFrame == [][C19_SucceededStep]_vars

\* C19 witness: a payment_intent.succeeded request was processed for a
\* Payment with several Transactions: PAYMENT_IN carries the event's hash
\* and the next Transaction does not.
C19_Witness ==
    \E h \in HookSlots, e \in EventIds, p \in PaymentIds :
        /\ hooks[h].status = "processed"
        /\ events[e].processed
        /\ events[e].payload = <<"payment_intent.succeeded", <<"pi", 1>> >>
        /\ events[e].relatedPaymentId = p
        /\ Len(txs[p]) >= 2
        /\ txs[p][1].blockchainTxHash = WebhookHash
        /\ txs[p][2].blockchainTxHash = NoHash

\* The steps of a request whose type is none of the handled ones, from
\* the storing of its event on; a step answered 500 is a store call that
\* threw.
C20_UnknownTypeStep ==
    \A h \in HookSlots :
        (/\ hooks[h].type \notin HandledTypes
         /\ hooks[h].pc \in {"upsert", "handle", "mark"}
         /\ hooks'[h] # hooks[h])
        => /\ payments' = payments
           /\ txs' = txs
           /\ \/ hooks'[h].http = 500 /\ events' = events
              \/ /\ hooks[h].pc = "upsert"
                 /\ hooks'[h].pc = "handle"
                 /\ events'[hooks[h].eid].stored
              \/ /\ hooks[h].pc = "handle"
                 /\ hooks'[h].pc = "mark"
                 /\ events' = events
              \/ /\ hooks[h].pc = "mark"
                 /\ hooks'[h].http = 200 /\ hooks'[h].status = "processed"
                 /\ events'[hooks[h].eid].stored
                 /\ events'[hooks[h].eid].processed

\* C20: a request whose event type is none of the six handled types
\* changes no Payment and no Transaction; its WebhookEvent is stored, then
\* marked processed, and the request is answered 'processed' (unless a
\* store call throws).
C20_UnknownTypeNoOp == [][C20_UnknownTypeStep]_vars

\* C20 witness: a settlement.created request was answered 'processed' and
\* its event is stored and processed.
C20_Witness ==
    \E h \in HookSlots, e \in EventIds :
        /\ hooks[h].status = "processed"
        /\ events[e].stored /\ events[e].processed
        /\ events[e].eventType = "settlement.created"
        /\ events[e].payload[1] = "settlement.created"

\* The event's external id matches no row its handler looks for.
NoMatch(type, did) ==
    IF type \in {"payment_intent.succeeded", "payment_intent.failed"}
    THEN \A p \in PaymentIds : payments[p].circlePaymentId # did
    ELSE \A t \in TxIds : Tx(t).circleTransactionId # did

\* The steps of a request of a handled type whose id matches nothing when
\* its handler looks, and the lookup of a redelivery of a processed event.
C21_NoMatchStep ==
    \A h \in HookSlots :
        /\ (/\ hooks[h].type \in HandledTypes
            /\ hooks[h].pc = "handle"
            /\ hooks'[h] # hooks[h]
            /\ NoMatch(hooks[h].type, hooks[h].did))
           => /\ StoreRows' = StoreRows
              /\ hooks'[h].pc = "mark" \/ hooks'[h].http = 500
              /\ hooks'[h].payment = NoPayment /\ hooks'[h].tx = NoTx
        /\ (/\ hooks[h].type \in HandledTypes
            /\ hooks[h].pc = "mark"
            /\ hooks'[h] # hooks[h]
            /\ hooks[h].payment = NoPayment /\ hooks[h].tx = NoTx)
           => /\ payments' = payments /\ txs' = txs
              /\ \/ hooks'[h].http = 500
                 \/ /\ hooks'[h].http = 200 /\ hooks'[h].status = "processed"
                    /\ events'[hooks[h].eid].processed
        /\ (/\ hooks[h].pc = "find_event"
            /\ hooks'[h] # hooks[h]
            /\ events[hooks[h].eid].processed)
           => /\ StoreRows' = StoreRows
              /\ hooks'[h].pc = "done"
              /\ hooks'[h].status = "already_processed" \/ hooks'[h].http = 500

\* C21: when the external id of a handled event matches no Payment
\* (payment_intent.*) or no Transaction (transfer.*, payout.*), the handler
\* returns without error and without writing a row; the request marks the
\* event processed and is answered 'processed'; and a redelivery of a
\* processed event id stops at the lookup and changes no row, whether or
\* not a matching row exists by then.
C21_NoMatchSwallowed == [][C21_NoMatchStep]_vars

\* C21 witness: an event naming a payment intent was processed with
\* nothing found, the Payment has the intent's id by now, and a redelivery
\* was answered 'already_processed'.
C21_Witness ==
    \E h \in HookSlots, e \in EventIds, p \in PaymentIds :
        /\ hooks[h].status = "already_processed"
        /\ events[e].processed
        /\ events[e].payload = <<"payment_intent.failed", <<"pi", 1>> >>
        /\ events[e].relatedPaymentId = NoPayment
        /\ payments[p].circlePaymentId = <<"pi", 1>>
        /\ payments[p].status # "FAILED"

\* The columns of a Transaction that identify it and say what it moved.
FixedColumns(tx) ==
    [paymentId |-> tx.paymentId, type |-> tx.type, amount |-> tx.amount,
     currency |-> tx.currency]

\* Every Transaction row is there after the step, at its place in the
\* order of creation and with its fixed columns.
C22_AppendStep ==
    \A p \in DOMAIN txs :
        /\ p \in DOMAIN txs'
        /\ Len(txs'[p]) >= Len(txs[p])
        /\ \A i \in DOMAIN txs[p] :
              FixedColumns(txs'[p][i]) = FixedColumns(txs[p][i])

\* C22: no step of a flow or of a webhook request deletes a Transaction or
\* changes the Payment reference, type, amount or currency of one; rows are
\* only added after the existing ones.
C22_AppendOnly == [][C22_AppendStep]_vars

\* C22 witness: a Payment has its four Transactions, and webhook requests
\* have rewritten the status of the first (hash of an event) and of the
\* last (FAILED).
C22_Witness ==
    \E p \in PaymentIds :
        /\ Len(txs[p]) = 4
        /\ txs[p][1].blockchainTxHash = WebhookHash
        /\ txs[p][4].status = "FAILED"

\* The step of a status read.
C23_ReadStep ==
    \A r \in Readers :
        reads'[r] # reads[r] =>
            LET id == reads'[r].paymentId
                got == reads'[r].transactions IN
            /\ StoreRows' = StoreRows
            /\ vendorStatus' = vendorStatus
            /\ flows' = flows
            /\ IF id \in PaymentIds
               THEN /\ reads'[r].http = 200
                    /\ reads'[r].status = payments[id].status
                    /\ Len(got) = Len(txs[id])
                    /\ \A i \in DOMAIN got :
                          /\ got[i].id = <<id, i>>
                          /\ got[i].type = txs[id][i].type
                          /\ got[i].status = txs[id][i].status
               ELSE /\ reads'[r].http = 404
                    /\ reads'[r].error = "Payment not found"

\* C23: a status read changes no row; for the id of a Payment it answers
\* 200 with the Payment's status at that moment and its Transactions in
\* the order of their creation, and for an id with no Payment it answers
\* 404 'Payment not found'.
C23_StatusReadOnly == [][C23_ReadStep]_vars

\* C23 witness: a status read returned a Payment that webhook and flow
\* have both written, with its four Transactions.
C23_Witness ==
    /\ reads[1].http = 200
    /\ Len(reads[1].transactions) = 4
    /\ reads[1].transactions[4].type = "PAYOUT"
    /\ reads[1].status = "FAILED"

\* The table of rates, in hundredths, and 1.0 for a pair it does not list.
ListedRate(from, to) ==
    IF <<from, to>> = <<"SGD", "USDC">> THEN 74
    ELSE IF <<from, to>> = <<"USDC", "USD">> THEN 100
    ELSE IF <<from, to>> = <<"SGD", "USD">> THEN 74
    ELSE 100

\* What a rate lookup returned.
C24_RateReturned ==
    quotes # NoQuote => quotes.rate = ListedRate(quotes.from, quotes.to)

\* The row a create step inserts.
C24_CreateStep ==
    \A p \in DOMAIN payments' \ DOMAIN payments :
        /\ payments'[p].exchangeRate = 74 * 100
        /\ payments'[p].amountUsd * 10000
              = payments'[p].amountSgd * payments'[p].exchangeRate

\* C24: the rate lookup returns the table's value for a listed ordered
\* pair and 1.0 for any other pair, never a missing value; and a new
\* Payment row carries exchangeRate = rate(SGD,USDC) x rate(USDC,USD) and
\* amountUsd = amountSgd x exchangeRate.
C24_Rates == []C24_RateReturned /\ [][C24_CreateStep]_vars

\* C24 witness: a Payment has been created and the last lookup was for a
\* pair the table does not list.
C24_Witness ==
    /\ payments # << >>
    /\ quotes.from = "USDC" /\ quotes.to = "SGD"
    /\ quotes.rate = 100

\* The Transaction of Payment p at place i records the fee of its own
\* amount (per thousand), and its amount is what the step before it left
\* after its fee, at the given rate.
FeeOfOwnAmount(p, i, perThousand) ==
    txs[p][i].fees = (txs[p][i].amount * perThousand) \div 1000

CarriedFrom(p, i, from, to) ==
    txs[p][i].amount
        = ((txs[p][i - 1].amount - txs[p][i - 1].fees) * getExchangeRate(from, to)) \div 100

\* C25 (as claimed): the exchange and payout Transactions record a fee of
\* 0.1%, 0.1% and 0.2% of their own amount, and each step's amount is the
\* amount of the step before less that step's fee.
C25_FeesDeducted ==
    \A p \in PaymentIds : \A i \in DOMAIN txs[p] :
        /\ txs[p][i].type = "EXCHANGE_SGD_TO_USDC" => FeeOfOwnAmount(p, i, 1)
        /\ txs[p][i].type = "EXCHANGE_USDC_TO_USD"
             => FeeOfOwnAmount(p, i, 1) /\ CarriedFrom(p, i, "USDC", "USD")
        /\ txs[p][i].type = "PAYOUT"
             => FeeOfOwnAmount(p, i, 2) /\ CarriedFrom(p, i, "USD", "USD")

\* The amount is a number in 0 < amount <= 1,000,000.
AmountInRange(amount) ==
    amount.kind = "number" /\ 0 < amount.cents /\ amount.cents <= 100000000

\* A key is supplied (the header is there and not empty) and it is not a
\* version-4 UUID.
KeyMalformed(header) == header[1] \in {"uuid-v1", "text"}

\* The first step of a payment request.
C26_ValidationStep ==
    \A c \in Callers :
        (calls[c].pc = "idle" /\ calls'[c].pc # "idle") =>
            LET r == calls'[c].request IN
            /\ payments' = payments
            /\ (~AmountInRange(r.amount) \/ KeyMalformed(r.header))
                 => calls'[c].pc = "done" /\ calls'[c].http = 400
            /\ (AmountInRange(r.amount) /\ ~KeyMalformed(r.header) /\ r.vendorId # "")
                 => calls'[c].pc = "lookup" /\ calls'[c].amountSgd = r.amount.cents

\* The requests that were turned away and the rows there are.
C26_NothingCreated ==
    /\ \A c \in Callers :
          (~AmountInRange(calls[c].request.amount) \/ KeyMalformed(calls[c].request.header))
            => calls[c].paymentId = NoPayment /\ calls[c].pc \in {"idle", "done"}
    /\ \A p \in PaymentIds :
          /\ 0 < payments[p].amountSgd /\ payments[p].amountSgd <= 100000000
          /\ payments[p].idempotencyKey[1] \in {"uuid", "uuid-gen"}

\* C26: a payment request whose amount is not a number in 0 < amount <=
\* 1,000,000 (0 and 1,000,000.01 are not, 1,000,000 is), or whose
\* Idempotency-Key header is given and is not a version-4 UUID, is answered
\* 400 at once and no Payment is created for it; a request with an amount in
\* the range, a vendor id and no malformed key goes on to the lookup.
C26_Validation == [][C26_ValidationStep]_vars /\ []C26_NothingCreated

\* C26 witness: a request for 1,000,000.01 was answered 400 and one for
\* 1,000,000 has its Payment.
C26_Witness ==
    \E c, d \in Callers, p \in PaymentIds :
        /\ calls[c].request.amount = Number(100000001)
        /\ calls[c].http = 400
        /\ calls[d].request.amount = Number(100000000)
        /\ calls[d].http = 201 /\ calls[d].paymentId = p
        /\ payments[p].amountSgd = 100000000

\* The request record of a correctly signed delivery after the signature
\* check, for any body.
SignedDeliveries ==
    {[IdleHook EXCEPT !.pc = "find_event", !.type = type, !.eid = eid,
                      !.did = did, !.signed = TRUE] :
        type \in EventTypes, eid \in EventIds, did \in DataIds}

\* The first step of a webhook request, whatever its x-signature header.
C27_ReceiveStep ==
    \A h \in HookSlots :
        (hooks[h].pc = "idle" /\ hooks'[h] # hooks[h]) =>
            /\ [hooks'[h] EXCEPT !.signed = TRUE] \in SignedDeliveries
            /\ events' = events /\ payments' = payments /\ txs' = txs

\* No request is answered 'Invalid signature'.
C27_NeverRefused ==
    \A h \in HookSlots : hooks[h].http # 401 /\ hooks[h].status # "Invalid signature"

\* C27: with no webhook secret configured, a webhook request with any
\* x-signature header (the digest under some key, a truncated or non-hex
\* text) or with none passes the signature check and goes on to the event
\* lookup in the state a correctly signed request goes on in; none is
\* answered 401.
C27_NoSecretSkipsCheck == [][C27_ReceiveStep]_vars /\ []C27_NeverRefused

\* C27 witness: with no secret, a request whose header is not the digest of
\* its body was answered 'processed', its event row is stored and processed
\* and linked to the Payment its handler found.
C27_Witness ==
    \E h \in HookSlots, e \in EventIds :
        /\ secret = NoSecret
        /\ hooks[h].status = "processed" /\ ~hooks[h].signed
        /\ events[e].stored /\ events[e].processed
        /\ events[e].relatedPaymentId \in PaymentIds

\* A delivery of the event has written the row its handler found: a request
\* under way that is past its write, or the processed event row with its
\* reference.
MutationApplied(e) ==
    \/ \E g \in HookSlots :
          /\ hooks[g].eid = e
          /\ hooks[g].pc \in {"payment", "link", "mark"}
          /\ (hooks[g].payment # NoPayment \/ hooks[g].tx # NoTx)
    \/ /\ events[e].processed
       /\ (events[e].relatedPaymentId # NoPayment \/ events[e].relatedTransactionId # NoTx)

\* C28 (as claimed): of the deliveries of one event id, overlapping ones
\* included (both read the WebhookEvent row before either marks it
\* processed), at most one has its handler write the Payment or Transaction
\* rows: no handler writes for an event whose write was already made.
C28_AppliedAtMostOnce ==
    [][\A h \in HookSlots :
          (hooks[h].pc = "handle" /\ hooks'[h].pc \in {"payment", "link"})
            => ~MutationApplied(hooks[h].eid)]_vars

\* C29 (as claimed): with the pipeline and the webhook handlers interleaved,
\* every Transaction of a COMPLETED Payment is CONFIRMED; none is FAILED or
\* PENDING.
C29_CompletedAllConfirmed ==
    \A p \in PaymentIds :
        payments[p].status = "COMPLETED"
            => \A i \in DOMAIN txs[p] : txs[p][i].status = "CONFIRMED"

\* C30 (as claimed): the status of a Transaction that is CONFIRMED or FAILED
\* is never changed to another status, neither by the pipeline's
\* confirmation of PAYMENT_IN nor by a webhook handler.
C30_TxStatusFinal ==
    [][\A p \in PaymentIds : \A i \in DOMAIN txs[p] :
          txs[p][i].status \in {"CONFIRMED", "FAILED"}
            => txs'[p][i].status = txs[p][i].status]_vars

\* C31 (as claimed): PROCESSING is written only to a Payment whose status
\* is PENDING, and a Payment that has left PENDING never has that status
\* again, in every interleaving of the flow with webhook requests.
C31_ProcessingFromPending ==
    [][\A p \in PaymentIds :
          /\ (payments'[p].status = "PROCESSING" /\ payments[p].status # "PROCESSING")
               => payments[p].status = "PENDING"
          /\ payments[p].status # "PENDING" => payments'[p].status # "PENDING"]_vars

\* C32: in every reachable state a Payment whose status is COMPLETED has
\* its actualSettlementTime set, whether the flow or a payout.completed
\* webhook wrote COMPLETED.
C32_CompletedIsSettled ==
    \A p \in PaymentIds : payments[p].status = "COMPLETED" => payments[p].settled

\* C32 witness: a COMPLETED Payment with its settlement time, whose flow has
\* written COMPLETED and for which a payout.completed event was processed.
C32_Witness ==
    \E p \in PaymentIds, e \in EventIds :
        /\ payments[p].status = "COMPLETED" /\ payments[p].settled
        /\ flows[p].pc = "done"
        /\ events[e].eventType = "payout.completed" /\ events[e].processed
        /\ events[e].relatedTransactionId \in TxIds
        /\ events[e].relatedTransactionId[1] = p

\* The Payment the handler of a request has found, directly or as the owner
\* of the Transaction it has found.
FoundPayment(hook) ==
    IF hook.payment # NoPayment THEN hook.payment
    ELSE IF hook.tx # NoTx THEN hook.tx[1] ELSE NoPayment

\* A write of the handler of a webhook request.
C33_HandlerStep ==
    \A h \in HookSlots :
        (hooks[h].pc \in {"handle", "payment"} /\ hooks'[h] # hooks[h]) =>
            /\ hooks[h].pc = "payment" => FoundPayment(hooks'[h]) = FoundPayment(hooks[h])
            /\ \A p \in PaymentIds :
                  (payments'[p] # payments[p] \/ txs'[p] # txs[p])
                      => p = FoundPayment(hooks'[h])

\* C33: the handler of one webhook request writes the status of at most one
\* Payment and only Transactions of that same Payment; every other Payment
\* and its Transactions are left as they are by the handler's writes, also
\* when Transactions of two Payments carry the same external id.
C33_OnePaymentPerEvent == [][C33_HandlerStep]_vars

\* C33 witness: the PAYOUT Transactions of two Payments carry the same
\* external id, a payout.failed event with that id was processed for one of
\* them, which is FAILED with its PAYOUT FAILED, and the other is COMPLETED
\* with its PAYOUT CONFIRMED.
C33_Witness ==
    \E p, q \in PaymentIds, e \in EventIds :
        /\ p # q
        /\ Len(txs[p]) = 4 /\ Len(txs[q]) = 4
        /\ txs[p][4].circleTransactionId = txs[q][4].circleTransactionId
        /\ events[e].eventType = "payout.failed" /\ events[e].processed
        /\ events[e].relatedTransactionId = <<p, 4>>
        /\ payments[p].status = "FAILED" /\ txs[p][4].status = "FAILED"
        /\ payments[q].status = "COMPLETED" /\ txs[q][4].status = "CONFIRMED"

\* C34 (as claimed): a PAYOUT Transaction is created only for a Payment
\* whose Vendor has status ACTIVE at that moment; a flow whose Vendor was
\* set to another status after the request does not pay out.
C34_PayoutOnlyIfActive ==
    [][\A p \in PaymentIds :
          (/\ Len(txs'[p]) = Len(txs[p]) + 1
           /\ txs'[p][Len(txs'[p])].type = "PAYOUT")
            => vendorStatus[payments[p].vendorId] = "ACTIVE"]_vars

\* The lookup step of a request whose key has a Payment, whatever the
\* request's body and the vendor's status.
C35_ReplayStep ==
    \A c \in Callers :
        (/\ calls[c].pc = "lookup"
         /\ calls'[c] # calls[c]
         /\ KeyHasPayment(calls[c].key))
        => LET p == PaymentOfKey(calls[c].key) IN
           /\ calls'[c].pc = "done" /\ calls'[c].http = 201
           /\ calls'[c].paymentId = p
           /\ calls'[c].response.status = payments[p].status
           /\ calls'[c].response.amountSgd = payments[p].amountSgd
           /\ calls'[c].response.estimatedAmountUsd = payments[p].amountUsd
           /\ payments' = payments /\ txs' = txs /\ flows' = flows
           /\ vendorStatus' = vendorStatus

\* C35: a request whose key already has a Payment is answered with that
\* Payment's id, its stored amounts and its current status, and changes no
\* row, also when its vendorId or amount differ from those of the Payment
\* or the vendor is not ACTIVE: the key is looked up before the vendor, and
\* the body is not used.
C35_ReplayIgnoresBody == [][C35_ReplayStep]_vars

\* C35 witness: a request naming another vendor and another amount than
\* the Payment of its key has, made while the Payment's vendor is INACTIVE,
\* was answered 201 with the Payment's amount.
C35_Witness ==
    \E c \in Callers, p \in PaymentIds :
        /\ calls[c].http = 201 /\ calls[c].paymentId = p
        /\ calls[c].response # NoResponse
        /\ calls[c].vendorId # payments[p].vendorId
        /\ calls[c].amountSgd # payments[p].amountSgd
        /\ calls[c].response.amountSgd = payments[p].amountSgd
        /\ vendorStatus[payments[p].vendorId] = "INACTIVE"
        /\ payments[p].status \in {"PROCESSING", "COMPLETED"}

\* C36: the processed flag of a WebhookEvent row, once true, stays true in
\* every step, those of later and of overlapping deliveries of the same
\* event id included (the upsert of such a delivery writes the payload
\* only); the row stays stored.
C36_ProcessedMonotone ==
    [][\A e \in EventIds :
          events[e].processed => events'[e].processed /\ events'[e].stored]_vars

\* C36 witness: two overlapping deliveries of the one stored event were
\* both answered 'processed' (the second made its upsert and its update on
\* a row the first had marked or was about to mark), and the row is
\* processed.
C36_Witness ==
    \E e \in EventIds :
        /\ events[e].processed
        /\ \A f \in EventIds \ {e} : ~events[f].stored
        /\ \A h \in HookSlots : hooks[h].status = "processed"

\* C37: every Payment that initiatePayment has created eventually has
\* status COMPLETED or FAILED, given that every ready continuation of its
\* flow is run and that, when the flow fails, one of the updates that write
\* FAILED succeeds; any store call of the flow may throw.
C37_ReachesTerminal ==
    \A p \in PaymentSlots :
        (p \in PaymentIds) ~> (p \in PaymentIds /\ payments[p].status \in Terminal)

\* C37 witness: one flow has run to its end and its Payment is COMPLETED;
\* another has thrown, its catch and the detached catch have run, and its
\* Payment is FAILED.
C37_Witness ==
    \E p, q \in PaymentIds :
        /\ flows[p].pc = "done" /\ payments[p].status = "COMPLETED"
        /\ flows[q].pc = "caught" /\ payments[q].status = "FAILED"
====
